---- MODULE Spec2Model ----
(***************************************************************************)
(* Model of core/config.py: the configuration loader of JavSP.             *)
(*                                                                         *)
(* The module-level sequence (lines 178-183) is                            *)
(*     cfg = Config(); args = parse_args(); cfg.read(args.config)          *)
(*     overwrite_cfg(cfg, args); cfg.validate()                            *)
(* and validate runs six stages.  Every Python function is a pure operator *)
(* returning the new store and the exception it raises (if any); one       *)
(* action per function applies it to the program state.                    *)
(*                                                                         *)
(* Python strings are sequences of one-character strings; Python values    *)
(* stored in the configuration are records [t |-> type tag, v |-> value].  *)
(***************************************************************************)
EXTENDS Integers, Sequences, FiniteSets, TLC

(***************************************************************************)
(* Bounds of the input generators.                                         *)
(***************************************************************************)
MaxHostLen == 2
MaxPortLen == 1
MaxExtItems == 2
MaxItemLen == 1

(***************************************************************************)
(* Strings.                                                                *)
(***************************************************************************)
UpperLetters == <<"A","B","C","D","E","F","G","H","I","J","K","L","M",
                  "N","O","P","Q","R","S","T","U","V","W","X","Y","Z">>
LowerLetters == <<"a","b","c","d","e","f","g","h","i","j","k","l","m",
                  "n","o","p","q","r","s","t","u","v","w","x","y","z">>
Digits == {"0","1","2","3","4","5","6","7","8","9"}
Whitespace == {" ", "\t", "\n", "\r"}

IsUpper(c) == \E i \in 1..26 : UpperLetters[i] = c
IsLowerLetter(c) == \E i \in 1..26 : LowerLetters[i] = c

\* str.lower() on one character (ASCII letters; other characters of the
\* model's alphabets have no case)
lower_char(c) ==
    IF IsUpper(c) THEN LowerLetters[CHOOSE i \in 1..26 : UpperLetters[i] = c]
    ELSE c

upper_char(c) ==
    IF IsLowerLetter(c) THEN UpperLetters[CHOOSE i \in 1..26 : LowerLetters[i] = c]
    ELSE c

\* str.lower()
str_lower(s) == [i \in 1..Len(s) |-> lower_char(s[i])]

\* str.startswith(prefix)
startswith(s, p) == Len(s) >= Len(p) /\ SubSeq(s, 1, Len(p)) = p

\* str.split(sep) for a one-character separator: one item per separator
\* plus one, empty items kept
RECURSIVE str_split(_, _)
str_split(s, sep) ==
    IF \A i \in 1..Len(s) : s[i] # sep THEN <<s>>
    ELSE LET k == CHOOSE i \in 1..Len(s) :
                      s[i] = sep /\ \A j \in 1..(i-1) : s[j] # sep
         IN <<SubSeq(s, 1, k-1)>> \o str_split(SubSeq(s, k+1, Len(s)), sep)

\* str.strip()
RECURSIVE str_strip(_)
str_strip(s) ==
    IF s = <<>> THEN s
    ELSE IF s[1] \in Whitespace THEN str_strip(Tail(s))
    ELSE IF s[Len(s)] \in Whitespace THEN str_strip(SubSeq(s, 1, Len(s)-1))
    ELSE s

(***************************************************************************)
(* Python values.                                                          *)
(***************************************************************************)
None == [t |-> "None", v |-> <<>>]
PyStr(s) == [t |-> "str", v |-> s]
PyInt(n) == [t |-> "int", v |-> n]
PyBool(b) == [t |-> "bool", v |-> b]
PyTuple(items) == [t |-> "tuple", v |-> items]
PyDict(d) == [t |-> "dict", v |-> d]
PyTemplate(s) == [t |-> "Template", v |-> s]

\* Python truth value of None or a string, as tested by `if args.proxy:`
Truthy(x) == x.t = "str" /\ x.v # <<>>

(***************************************************************************)
(* Regular expressions, as the re module matches them.  A pattern is a     *)
(* tree; Ends(r, s, P) is the set of offsets at which a match of r that    *)
(* starts at an offset of P can end.  re.match succeeds iff some match     *)
(* starting at offset 0 exists.                                            *)
(***************************************************************************)
Chars(cs) == [k |-> "set", cs |-> cs, neg |-> FALSE]
NotChars(cs) == [k |-> "set", cs |-> cs, neg |-> TRUE]
Lit(c) == Chars({c})
Cat(rs) == [k |-> "cat", rs |-> rs]
Alt(rs) == [k |-> "alt", rs |-> rs]
\* r{lo,hi}; hi = -1 is unbounded
Rep(r, lo, hi) == [k |-> "rep", r |-> r, lo |-> lo, hi |-> hi]
Opt(r) == Rep(r, 0, 1)
Plus(r) == Rep(r, 1, -1)
\* `$` without re.MULTILINE: the end, or just before a final newline
Eol == [k |-> "eol"]
\* a literal string
Word(s) == Cat([i \in 1..Len(s) |-> Lit(s[i])])

CharMatches(r, c, ignorecase) ==
    LET in == \/ c \in r.cs
              \/ ignorecase /\ (lower_char(c) \in r.cs \/ upper_char(c) \in r.cs)
    IN IF r.neg THEN ~in ELSE in

RECURSIVE Ends(_, _, _, _), CatEnds(_, _, _, _, _), RepEnds(_, _, _, _, _, _)
Ends(r, s, P, ic) ==
    CASE r.k = "set" ->
           {p + 1 : p \in {q \in P : q < Len(s) /\ CharMatches(r, s[q+1], ic)}}
      [] r.k = "cat" -> CatEnds(r.rs, 1, s, P, ic)
      [] r.k = "alt" -> UNION {Ends(r.rs[i], s, P, ic) : i \in 1..Len(r.rs)}
      [] r.k = "rep" -> RepEnds(r.r, r.lo, r.hi, s, P, ic)
      [] r.k = "eol" ->
           {p \in P : \/ p = Len(s)
                      \/ p = Len(s) - 1 /\ s[Len(s)] = "\n"}

CatEnds(rs, i, s, P, ic) ==
    IF i > Len(rs) \/ P = {} THEN P
    ELSE CatEnds(rs, i + 1, s, Ends(rs[i], s, P, ic), ic)

RepEnds(r, lo, hi, s, P, ic) ==
    IF P = {} THEN {}
    ELSE IF lo > 0
         THEN RepEnds(r, lo - 1, IF hi < 0 THEN hi ELSE hi - 1, s,
                      Ends(r, s, P, ic), ic)
    ELSE IF hi = 0 THEN P
    ELSE P \cup RepEnds(r, 0, IF hi < 0 THEN hi ELSE hi - 1, s,
                        Ends(r, s, P, ic) \ P, ic)

\* re.match(pattern, s) is not None
re_match(r, s, ic) == Ends(r, s, {0}, ic) # {}

(***************************************************************************)
(* String literals of the source.                                          *)
(***************************************************************************)
s_http == <<"h","t","t","p">>
s_https == <<"h","t","t","p","s">>
s_scheme_sep == <<":","/","/">>
s_http_prefix == s_http \o s_scheme_sep
s_socks5 == <<"s","o","c","k","s","5">>
s_localhost == <<"l","o","c","a","l","h","o","s","t">>
s_yes == <<"y","e","s">>
\* os.sep (POSIX)
os_sep == <<"/">>

(***************************************************************************)
(* is_url (lines 64-74): the pattern, compiled with re.IGNORECASE.         *)
(***************************************************************************)
UpperSet == {UpperLetters[i] : i \in 1..26}
LowerSet == {LowerLetters[i] : i \in 1..26}
re_AZ09 == Chars(UpperSet \cup Digits)
re_AZ09hy == Chars(UpperSet \cup Digits \cup {"-"})
re_digit == Chars(Digits)

url_pattern ==
    Cat(<< Word(s_http), Opt(Lit("s")), Word(s_scheme_sep),
           Alt(<< Cat(<< Plus(Cat(<< re_AZ09,
                                     Opt(Cat(<<Rep(re_AZ09hy, 0, 61), re_AZ09>>)),
                                     Lit(".") >>)),
                         Alt(<< Cat(<<Rep(Chars(UpperSet), 2, 6), Opt(Lit("."))>>),
                                Cat(<<Rep(re_AZ09hy, 2, -1), Opt(Lit("."))>>) >>) >>),
                  Word(s_localhost),
                  Cat(<< Rep(re_digit, 1, 3), Lit("."), Rep(re_digit, 1, 3), Lit("."),
                         Rep(re_digit, 1, 3), Lit("."), Rep(re_digit, 1, 3) >>) >>),
           Opt(Cat(<<Lit(":"), Plus(re_digit)>>)),
           Alt(<< Opt(Lit("/")),
                  Cat(<<Chars({"/", "?"}), Plus(NotChars(Whitespace))>>) >>),
           Eol >>)

is_url(url) == re_match(url_pattern, url, TRUE)

(***************************************************************************)
(* The pattern of validate_proxy (line 115), case-sensitive.               *)
(***************************************************************************)
proxy_pattern ==
    Cat(<< Alt(<< Cat(<<Word(s_socks5), Opt(Lit("h"))>>), Word(s_http) >>),
           Word(s_scheme_sep),
           Plus(Chars({"-", "."} \cup LowerSet \cup Digits)),
           Lit(":"),
           Plus(re_digit),
           Eol >>)

(***************************************************************************)
(* configparser: the store maps section names to mappings of option names  *)
(* to values (ConfigParser._sections with dict_type DotDict).  The result  *)
(* of a function is the store it leaves, the exception it raises ("" when  *)
(* it returns) and the records it logs.                                    *)
(***************************************************************************)
EmptyStore == [sec \in {} |-> <<>>]
Res(c, exc, logs) == [cfg |-> c, exc |-> exc, log |-> logs]
LogRec(level, fn) == [level |-> level, fn |-> fn]

\* ConfigParser.get: NoSectionError / NoOptionError, else the raw value
cfg_get(c, sec, key) ==
    IF sec \notin DOMAIN c THEN [exc |-> "NoSectionError", v |-> None]
    ELSE IF key \notin DOMAIN c[sec] THEN [exc |-> "NoOptionError", v |-> None]
    ELSE [exc |-> "", v |-> c[sec][key]]

\* int(str): surrounding whitespace, an optional sign, then decimal digits
\* with single underscores allowed between digits
int_literal_ok(s) ==
    LET b == str_strip(s)
        d == IF b # <<>> /\ b[1] \in {"+", "-"} THEN Tail(b) ELSE b
    IN /\ d # <<>>
       /\ d[1] \in Digits /\ d[Len(d)] \in Digits
       /\ \A i \in 1..Len(d) : d[i] \in Digits \cup {"_"}
       /\ \A i \in 1..(Len(d)-1) : d[i] = "_" => d[i+1] # "_"

digit_value(c) ==
    CASE c = "0" -> 0 [] c = "1" -> 1 [] c = "2" -> 2 [] c = "3" -> 3
      [] c = "4" -> 4 [] c = "5" -> 5 [] c = "6" -> 6 [] c = "7" -> 7
      [] c = "8" -> 8 [] c = "9" -> 9

RECURSIVE digits_value(_, _)
digits_value(d, acc) ==
    IF d = <<>> THEN acc
    ELSE IF d[1] = "_" THEN digits_value(Tail(d), acc)
    ELSE digits_value(Tail(d), 10 * acc + digit_value(d[1]))

int_literal_value(s) ==
    LET b == str_strip(s)
    IN IF b[1] = "-" THEN 0 - digits_value(Tail(b), 0)
       ELSE IF b[1] = "+" THEN digits_value(Tail(b), 0)
       ELSE digits_value(b, 0)

\* ConfigParser.getint
cfg_getint(c, sec, key) ==
    LET g == cfg_get(c, sec, key)
    IN IF g.exc # "" THEN g
       ELSE IF ~int_literal_ok(g.v.v) THEN [exc |-> "ValueError", v |-> None]
       ELSE [exc |-> "", v |-> PyInt(int_literal_value(g.v.v))]

\* ConfigParser.BOOLEAN_STATES
BOOLEAN_TRUE == {<<"1">>, <<"y","e","s">>, <<"t","r","u","e">>, <<"o","n">>}
BOOLEAN_FALSE == {<<"0">>, <<"n","o">>, <<"f","a","l","s","e">>, <<"o","f","f">>}

\* getboolean taking every unrecognized spelling for false
cfg_getboolean_lenient(c, sec, key) ==
    LET g == cfg_get(c, sec, key)
    IN IF g.exc # "" THEN g
       ELSE [exc |-> "", v |-> PyBool(str_lower(g.v.v) \in BOOLEAN_TRUE)]

\* ConfigParser.getboolean: value.lower() looked up in BOOLEAN_STATES
cfg_getboolean(c, sec, key) ==
    LET g == cfg_get(c, sec, key)
    IN IF g.exc # "" THEN g
       ELSE IF str_lower(g.v.v) \in BOOLEAN_TRUE THEN [exc |-> "", v |-> PyBool(TRUE)]
       ELSE IF str_lower(g.v.v) \in BOOLEAN_FALSE THEN [exc |-> "", v |-> PyBool(FALSE)]
       ELSE [exc |-> "ValueError", v |-> None]

(***************************************************************************)
(* Config.read (lines 41-49).  outcomes[i] is what the i-th call of        *)
(* ConfigParser.read does on an existing file: "ok", "UnicodeDecodeError"  *)
(* or another exception.  A file that cannot be opened is skipped by       *)
(* ConfigParser.read without an exception.                                 *)
(***************************************************************************)
Encodings == << "utf-8", "utf-8-sig", "default" >>
Attempt(i, result) == [encoding |-> Encodings[i], result |-> result]

super_read(c, exists, doc, outcome) ==
    IF ~exists THEN [cfg |-> c, result |-> "ok"]
    ELSE IF outcome = "ok" THEN [cfg |-> doc, result |-> "ok"]
    ELSE [cfg |-> c, result |-> outcome]

\* Config.read with a bare `except:` in place of `except UnicodeDecodeError:`
Config_read_bare_except(c, exists, doc, outcomes) ==
    LET r1 == super_read(c, exists, doc, outcomes[1])
        r2 == super_read(c, exists, doc, outcomes[2])
        r3 == super_read(c, exists, doc, outcomes[3])
    IN IF r1.result = "ok"
       THEN [cfg |-> r1.cfg, attempts |-> <<Attempt(1, r1.result)>>, exc |-> ""]
       ELSE IF r2.result = "ok"
       THEN [cfg |-> r2.cfg, exc |-> "",
             attempts |-> <<Attempt(1, r1.result), Attempt(2, r2.result)>>]
       ELSE [cfg |-> r3.cfg,
             attempts |-> <<Attempt(1, r1.result), Attempt(2, r2.result),
                            Attempt(3, r3.result)>>,
             exc |-> IF r3.result = "ok" THEN "" ELSE r3.result]

Config_read(c, exists, doc, outcomes) ==
    LET r1 == super_read(c, exists, doc, outcomes[1])
        r2 == super_read(c, exists, doc, outcomes[2])
        r3 == super_read(c, exists, doc, outcomes[3])
    IN IF r1.result # "UnicodeDecodeError"
       THEN [cfg |-> r1.cfg, attempts |-> <<Attempt(1, r1.result)>>,
             exc |-> IF r1.result = "ok" THEN "" ELSE r1.result]
       ELSE IF r2.result = "ok"
       THEN [cfg |-> r2.cfg, exc |-> "",
             attempts |-> <<Attempt(1, r1.result), Attempt(2, r2.result)>>]
       ELSE [cfg |-> r3.cfg,
             attempts |-> <<Attempt(1, r1.result), Attempt(2, r2.result),
                            Attempt(3, r3.result)>>,
             exc |-> IF r3.result = "ok" THEN "" ELSE r3.result]

(***************************************************************************)
(* The six stages of Config.validate (lines 77-139).                       *)
(***************************************************************************)
norm_int(c) ==
    LET retry == cfg_getint(c, "Network", "retry")
        c1 == [c EXCEPT !.Network.retry = retry.v]
        timeout == cfg_getint(c1, "Network", "timeout")
        c2 == [c1 EXCEPT !.Network.timeout = timeout.v]
    IN IF retry.exc # "" THEN Res(c, retry.exc, <<>>)
       ELSE IF timeout.exc # "" THEN Res(c1, timeout.exc, <<>>)
       ELSE Res(c2, "", <<>>)

\* line 87 without its test: '.' in front of every item
dot_ext_always(i) == <<".">> \o i

\* line 87: '.' is prepended to the items that do not start with one
dot_ext(i) == IF startswith(i, <<".">>) THEN i ELSE <<".">> \o i

\* norm_tuples without the conversion of ignore_folder (lines 90-91)
norm_tuples_partial(c) ==
    LET items == str_split(str_lower(c.File.media_ext.v), ";")
        exts == [k \in 1..Len(items) |-> dot_ext(items[k])]
        c1 == [c EXCEPT !.File.media_ext = PyTuple(exts)]
        c3 == [c1 EXCEPT !.Crawler.required_keys =
                             PyTuple(str_split(c.Crawler.required_keys.v, ","))]
    IN Res(c3, "", <<>>)

norm_tuples(c) ==
    LET items == str_split(str_lower(c.File.media_ext.v), ";")
        exts == [k \in 1..Len(items) |-> dot_ext(items[k])]
        c1 == [c EXCEPT !.File.media_ext = PyTuple(exts)]
        c2 == [c1 EXCEPT !.File.ignore_folder =
                             PyTuple(str_split(c.File.ignore_folder.v, ";"))]
        c3 == [c2 EXCEPT !.Crawler.required_keys =
                             PyTuple(str_split(c.Crawler.required_keys.v, ","))]
    IN Res(c3, "", <<>>)

BooleanFields ==
    << <<"Crawler", "hardworking_mode">>,
       <<"Crawler", "title__remove_actor">>,
       <<"Crawler", "title__chinese_first">>,
       <<"Picture", "use_big_cover">>,
       <<"NFO", "add_genre_to_tag">> >>

RECURSIVE norm_boolean_from(_, _)
norm_boolean_from(c, i) ==
    IF i > Len(BooleanFields) THEN Res(c, "", <<>>)
    ELSE LET sec == BooleanFields[i][1]
             key == BooleanFields[i][2]
             b == cfg_getboolean(c, sec, key)
         IN IF b.exc # "" THEN Res(c, b.exc, <<>>)
            ELSE norm_boolean_from([c EXCEPT ![sec][key] = b.v], i + 1)

norm_boolean(c) == norm_boolean_from(c, 1)

NoProxies == [k \in {} |-> <<>>]
BothProxies(proxy) == [k \in {"http", "https"} |-> proxy]

\* validate_proxy without the lower-casing of line 114
validate_proxy_as_written(c) ==
    LET use_proxy == cfg_getboolean(c, "Network", "use_proxy")
        proxy == c.Network.proxy.v
        match == re_match(proxy_pattern, proxy, FALSE)
    IN IF use_proxy.exc # "" THEN Res(c, use_proxy.exc, <<>>)
       ELSE IF ~use_proxy.v.v
       THEN Res([c EXCEPT !.Network.proxy = PyDict(NoProxies)], "", <<>>)
       ELSE IF match
       THEN Res([c EXCEPT !.Network.proxy = PyDict(BothProxies(proxy))], "", <<>>)
       ELSE Res([c EXCEPT !.Network.proxy = PyDict(NoProxies)], "",
                <<LogRec("WARNING", "validate_proxy")>>)

validate_proxy(c) ==
    LET use_proxy == cfg_getboolean(c, "Network", "use_proxy")
        proxy == str_lower(c.Network.proxy.v)
        match == re_match(proxy_pattern, proxy, FALSE)
    IN IF use_proxy.exc # "" THEN Res(c, use_proxy.exc, <<>>)
       ELSE IF ~use_proxy.v.v
       THEN Res([c EXCEPT !.Network.proxy = PyDict(NoProxies)], "", <<>>)
       ELSE IF match
       THEN Res([c EXCEPT !.Network.proxy = PyDict(BothProxies(proxy))], "", <<>>)
       ELSE Res([c EXCEPT !.Network.proxy = PyDict(NoProxies)], "",
                <<LogRec("WARNING", "validate_proxy")>>)

convert_naming_rule(c) ==
    LET combine == c.NamingRule.output_folder.v \o os_sep \o c.NamingRule.save_dir.v
        path_t == PyTemplate(combine)
        file_t == PyTemplate(c.NamingRule.filename.v)
    IN Res([c EXCEPT !.NamingRule.save_dir = path_t,
                     !.NamingRule.filename = file_t], "", <<>>)

\* lines 136-139, for one url of the section
proxy_free_url(raw) ==
    LET low == str_lower(raw)
        url == IF ~startswith(low, s_http) THEN s_http_prefix \o low ELSE low
    IN IF is_url(url) THEN url ELSE <<>>

check_proxy_free_url(c) ==
    IF "ProxyFree" \notin DOMAIN c THEN Res(c, "KeyError", <<>>)
    ELSE Res([c EXCEPT !.ProxyFree =
                 [site \in DOMAIN c.ProxyFree |->
                     PyStr(proxy_free_url(c.ProxyFree[site].v))]], "", <<>>)

(***************************************************************************)
(* parse_args (lines 142-164) and overwrite_cfg (lines 167-175).           *)
(***************************************************************************)
cwd == <<"/","w">>
default_config == <<"/","p","k","g","/","c","o","n","f","i","g",".","i","n","i">>

\* os.path.abspath of a path without '.' or '..' components
abspath(p) == IF startswith(p, os_sep) THEN p ELSE cwd \o os_sep \o p

\* parse_args falling back to the default file when the given one is missing
parse_args_fallback(given, existing) ==
    LET cfg_file == IF Truthy(given.config) /\ abspath(given.config.v) \in existing
                    THEN abspath(given.config.v)
                    ELSE default_config
        logs == IF ~Truthy(given.config) THEN <<>>
                ELSE IF abspath(given.config.v) \notin existing
                THEN <<LogRec("ERROR", "parse_args")>>
                ELSE <<LogRec("DEBUG", "parse_args")>>
    IN [args |-> [given EXCEPT !.config = PyStr(cfg_file)], log |-> logs]

parse_args(cli, files) ==
    LET cfg_file == IF Truthy(cli.config) THEN abspath(cli.config.v)
                    ELSE default_config
        logs == IF ~Truthy(cli.config) THEN <<>>
                ELSE IF cfg_file \notin files
                THEN <<LogRec("ERROR", "parse_args")>>
                ELSE <<LogRec("DEBUG", "parse_args")>>
    IN [args |-> [cli EXCEPT !.config = PyStr(cfg_file)], log |-> logs]

\* overwrite_cfg with line 170 writing use_proxy
overwrite_cfg_use_proxy(c, a) ==
    LET p == Truthy(a.proxy)
        i == Truthy(a.input)
        o == Truthy(a.output)
        c1 == IF p THEN [c EXCEPT !.Network.use_proxy = PyStr(s_yes),
                                  !.Network.proxy = a.proxy]
              ELSE c
        c2 == IF i THEN [c1 EXCEPT !.File.scan_dir = a.input] ELSE c1
        c3 == IF o THEN [c2 EXCEPT !.NamingRule.output_folder = a.output] ELSE c2
    IN IF p /\ "Network" \notin DOMAIN c THEN Res(c, "KeyError", <<>>)
       ELSE IF i /\ "File" \notin DOMAIN c THEN Res(c1, "KeyError", <<>>)
       ELSE IF o /\ "NamingRule" \notin DOMAIN c THEN Res(c2, "KeyError", <<>>)
       ELSE Res(c3, "", <<>>)

overwrite_cfg(c, a) ==
    LET p == Truthy(a.proxy)
        i == Truthy(a.input)
        o == Truthy(a.output)
        c1 == IF p THEN [[c EXCEPT !.Network.proxy = PyStr(s_yes)]
                            EXCEPT !.Network.proxy = a.proxy]
              ELSE c
        c2 == IF i THEN [c1 EXCEPT !.File.scan_dir = a.input] ELSE c1
        c3 == IF o THEN [c2 EXCEPT !.NamingRule.output_folder = a.output] ELSE c2
    IN IF p /\ "Network" \notin DOMAIN c THEN Res(c, "KeyError", <<>>)
       ELSE IF i /\ "File" \notin DOMAIN c THEN Res(c1, "KeyError", <<>>)
       ELSE IF o /\ "NamingRule" \notin DOMAIN c THEN Res(c2, "KeyError", <<>>)
       ELSE Res(c3, "", <<>>)

(***************************************************************************)
(* The program: module-level initialization (lines 178-183), one step per  *)
(* function called, then the stages of Config.validate in its order        *)
(* (lines 55-61).                                                          *)
(***************************************************************************)
VARIABLES
    pc,        \* the function about to run, or "done" / "raised"
    cli,       \* the command line: values of -c, -i, -o, -x (None if absent)
    files,     \* the paths that exist in the file system
    doc,       \* the sections of the configuration file, as written
    outcomes,  \* what each of the three decodings of the file does
    args,      \* the namespace returned by parse_args
    cfg,       \* the Config store (cfg._sections)
    log,       \* the records logged so far
    attempts,  \* the calls of ConfigParser.read made by Config.read
    hist,      \* the functions entered so far, in order
    exc        \* the exception that ended the run ("" if none)

vars == <<pc, cli, files, doc, outcomes, args, cfg, log, attempts, hist, exc>>

validate_stages ==
    << "norm_int", "norm_tuples", "norm_boolean", "validate_proxy",
       "convert_naming_rule", "check_proxy_free_url" >>

\* the overlay applied after validate instead of before it
main_steps_overlay_last ==
    <<"parse_args", "read">> \o validate_stages \o <<"overwrite_cfg">>

main_steps == <<"parse_args", "read", "overwrite_cfg">> \o validate_stages

\* the step after `name`: the next call, or the end of the initialization
next_step(name) ==
    LET i == CHOOSE k \in 1..Len(main_steps) : main_steps[k] = name
    IN IF i = Len(main_steps) THEN "done" ELSE main_steps[i + 1]

\* a function of the sequence runs on the store: it returns or it raises
Call(name, r) ==
    /\ pc = name
    /\ hist' = Append(hist, name)
    /\ cfg' = r.cfg
    /\ log' = log \o r.log
    /\ exc' = r.exc
    /\ pc' = IF r.exc = "" THEN next_step(name) ELSE "raised"

ParseArgs ==
    /\ pc = "parse_args"
    /\ LET r == parse_args(cli, files)
       IN /\ args' = r.args
          /\ log' = log \o r.log
    /\ hist' = Append(hist, "parse_args")
    /\ pc' = next_step("parse_args")
    /\ UNCHANGED <<cli, files, doc, outcomes, cfg, attempts, exc>>

Read ==
    /\ pc = "read"
    /\ LET r == Config_read(cfg, args.config.v \in files, doc, outcomes)
       IN /\ attempts' = r.attempts
          /\ Call("read", Res(r.cfg, r.exc, <<>>))
    /\ UNCHANGED <<cli, files, doc, outcomes, args>>

OverwriteCfg ==
    /\ Call("overwrite_cfg", overwrite_cfg(cfg, args))
    /\ UNCHANGED <<cli, files, doc, outcomes, args, attempts>>

NormInt ==
    /\ Call("norm_int", norm_int(cfg))
    /\ UNCHANGED <<cli, files, doc, outcomes, args, attempts>>

NormTuples ==
    /\ Call("norm_tuples", norm_tuples(cfg))
    /\ UNCHANGED <<cli, files, doc, outcomes, args, attempts>>

NormBoolean ==
    /\ Call("norm_boolean", norm_boolean(cfg))
    /\ UNCHANGED <<cli, files, doc, outcomes, args, attempts>>

ValidateProxy ==
    /\ Call("validate_proxy", validate_proxy(cfg))
    /\ UNCHANGED <<cli, files, doc, outcomes, args, attempts>>

ConvertNamingRule ==
    /\ Call("convert_naming_rule", convert_naming_rule(cfg))
    /\ UNCHANGED <<cli, files, doc, outcomes, args, attempts>>

CheckProxyFreeUrl ==
    /\ Call("check_proxy_free_url", check_proxy_free_url(cfg))
    /\ UNCHANGED <<cli, files, doc, outcomes, args, attempts>>

Next ==
    \/ ParseArgs
    \/ Read
    \/ OverwriteCfg
    \/ NormInt
    \/ NormTuples
    \/ NormBoolean
    \/ ValidateProxy
    \/ ConvertNamingRule
    \/ CheckProxyFreeUrl

(***************************************************************************)
(* Inputs.  A configuration file is a document of raw strings.             *)
(***************************************************************************)
NoArgs == [config |-> None, input |-> None, output |-> None, proxy |-> None]

cli_config == <<"m","y",".","i","n","i">>
cli_proxy == <<"h","t","t","p",":","/","/","1",".","2",".","3",".","4",":","8","0","8","0">>
cli_output == <<"/","o","u","t">>
cli_input == <<"/","i","n">>

DefaultDoc ==
    [ Network |-> [ retry |-> PyStr(<<"3">>), timeout |-> PyStr(<<"1","0">>),
                    use_proxy |-> PyStr(<<"n","o">>),
                    proxy |-> PyStr(<<"h","t","t","p",":","/","/","1","2","7",".","0",".","0",".","1",":","1","0","8","0">>) ],
      File |-> [ media_ext |-> PyStr(<<"m","p","4",";","A","V","I">>),
                 ignore_folder |-> PyStr(<<"#","r","e","c","y","c","l","e",";","S","u","b">>),
                 scan_dir |-> PyStr(<<>>) ],
      Crawler |-> [ hardworking_mode |-> PyStr(<<"y","e","s">>),
                    title__remove_actor |-> PyStr(<<"y","e","s">>),
                    title__chinese_first |-> PyStr(<<"y","e","s">>),
                    required_keys |-> PyStr(<<"c","o","v","e","r",",","t","i","t","l","e">>) ],
      Picture |-> [ use_big_cover |-> PyStr(<<"y","e","s">>) ],
      NFO |-> [ add_genre_to_tag |-> PyStr(<<"y","e","s">>) ],
      NamingRule |-> [ output_folder |-> PyStr(<<"#","d","o","n","e">>),
                       save_dir |-> PyStr(<<"$","a","c","t","r","e","s","s","/","$","n","u","m">>),
                       filename |-> PyStr(<<"$","n","u","m">>) ],
      ProxyFree |-> [ javbus |-> PyStr(<<"h","t","t","p","s",":","/","/","w","w","w",".","b","u","s","d","m","m",".","c","a","m">>),
                      javdb |-> PyStr(<<"E","X","A","M","P","L","E",".","c","o","m","/","p","a","t","h">>) ] ]

AllFiles == {default_config, abspath(cli_config)}
AllDecodable == <<"ok", "ok", "ok">>

\* the state after `cfg = Config()`, for a command line, a file system and
\* a configuration file
Start(c, f, d, o) ==
    /\ pc = "parse_args"
    /\ cli = c
    /\ files = f
    /\ doc = d
    /\ outcomes = o
    /\ args = NoArgs
    /\ cfg = EmptyStore
    /\ log = <<>>
    /\ attempts = <<>>
    /\ hist = <<>>
    /\ exc = ""

\* the five boolean options, in the order of BooleanFields
WithBooleans(d, b) ==
    [d EXCEPT !.Crawler.hardworking_mode = PyStr(b[1]),
              !.Crawler.title__remove_actor = PyStr(b[2]),
              !.Crawler.title__chinese_first = PyStr(b[3]),
              !.Picture.use_big_cover = PyStr(b[4]),
              !.NFO.add_genre_to_tag = PyStr(b[5])]

BooleanSamples ==
    { << <<"Y","e","s">>, <<"y","e","s">>, <<"Y","E","S">>, <<"1">>, <<"o","n">> >>,
      << <<"n","o">>, <<"O","f","f">>, <<"0">>, <<"F","A","L","S","E">>, <<"T","r","u","e">> >>,
      << <<"m","a","y","b","e">>, <<"y","e","s">>, <<"y","e","s">>, <<"y","e","s">>, <<"y","e","s">> >>,
      << <<"y","e","s">>, <<"n","o">>, <<"y","e","s">>, <<"n","o">>, <<"m","a","y","b","e">> >> }

OutcomeSamples ==
    { <<"ok", "ok", "ok">>,
      <<"ParsingError", "ok", "ok">>,
      <<"UnicodeDecodeError", "ok", "ok">>,
      <<"UnicodeDecodeError", "UnicodeDecodeError", "ok">>,
      <<"UnicodeDecodeError", "ParsingError", "ok">>,
      <<"UnicodeDecodeError", "UnicodeDecodeError", "UnicodeDecodeError">>,
      <<"UnicodeDecodeError", "ParsingError", "ParsingError">> }

Docs ==
    { WithBooleans([DefaultDoc EXCEPT !.Network.retry = PyStr(r),
                                      !.Network.timeout = PyStr(t),
                                      !.Network.use_proxy = PyStr(u),
                                      !.Network.proxy = PyStr(p)], b) :
        r \in {<<"3">>, <<"x">>}, t \in {<<"1","0">>, <<"1","o">>},
        u \in {<<"y","e","s">>, <<"F","a","l","s","e">>, <<"m","a","y","b","e">>},
        p \in {<<"h","t","t","p",":","/","/","1","2","7",".","0",".","0",".","1",":","1","0","8","0">>, <<"1","2","7",".","0",".","0",".","1">>},
        b \in BooleanSamples }

Clis ==
    [ config : {None, PyStr(cli_config)},
      input : {None, PyStr(cli_input)},
      output : {None, PyStr(cli_output)},
      proxy : {None, PyStr(<<>>), PyStr(cli_proxy)} ]

\* a file system without the configuration file (nothing to read or to
\* decode), or one that holds it with the document d, decoded as o says
Present(d, o) == [files |-> AllFiles, doc |-> d, outcomes |-> o]
Absent == [files |-> {}, doc |-> EmptyStore, outcomes |-> AllDecodable]

StartWith(c, w) == Start(c, w.files, w.doc, w.outcomes)

Init ==
    \E c \in Clis :
       \E w \in {Absent} \cup {Present(d, o) : d \in Docs, o \in OutcomeSamples} :
          StartWith(c, w)

Spec == Init /\ [][Next]_vars

(***************************************************************************)
(* Proxy addresses: scheme, separator, host, colon, port and an optional   *)
(* final newline, each drawn from a small set.                             *)
(***************************************************************************)
RECURSIVE StringsUpTo(_, _)
StringsUpTo(alphabet, n) ==
    IF n = 0 THEN {<<>>}
    ELSE LET shorter == StringsUpTo(alphabet, n - 1)
         IN shorter \cup {Append(s, a) : s \in shorter, a \in alphabet}

ProxySchemes == {<<"h","t","t","p">>, <<"s","o","c","k","s","5","h">>, <<"S","o","c","k","s","5">>, <<"h","t","t","p","s">>}
ProxyAddresses ==
    { scheme \o sep \o host \o colon \o port \o tail :
        scheme \in ProxySchemes,
        sep \in {<<":","/","/">>, <<":","/">>},
        host \in StringsUpTo({"a", "B", "_"}, MaxHostLen),
        colon \in {<<":">>, <<>>},
        port \in StringsUpTo({"8", "x"}, MaxPortLen),
        tail \in {<<>>, <<"\n">>} }

InitProxy ==
    \E u \in {<<"T","r","u","e">>, <<"n","o">>, <<"m","a","y","b","e">>}, p \in ProxyAddresses :
        StartWith(NoArgs,
                  Present([DefaultDoc EXCEPT !.Network.use_proxy = PyStr(u),
                                             !.Network.proxy = PyStr(p)],
                          AllDecodable))

SpecProxy == InitProxy /\ [][Next]_vars

(***************************************************************************)
(* Media extensions: up to MaxExtItems items of up to MaxItemLen           *)
(* characters, joined by semicolons.                                       *)
(***************************************************************************)
RECURSIVE ExtLists(_)
ExtLists(n) ==
    LET items == StringsUpTo({"V", "i", "."}, MaxItemLen)
    IN IF n = 1 THEN items
       ELSE LET shorter == ExtLists(n - 1)
            IN shorter \cup {s \o <<";">> \o i : s \in shorter, i \in items}

InitExt ==
    \E e \in ExtLists(MaxExtItems) \cup {<<"m","p","4",";","A","V","I">>} :
        StartWith(NoArgs,
                  Present([DefaultDoc EXCEPT !.File.media_ext = PyStr(e)],
                          AllDecodable))

SpecExt == InitExt /\ [][Next]_vars

(***************************************************************************)
(* Proxy-free URLs: an optional scheme prefix, a host and a suffix.        *)
(***************************************************************************)
ProxyFreeUrls ==
    { prefix \o host \o suffix :
        prefix \in {<<>>, <<"h","t","t","p",":","/","/">>, <<"H","T","T","P","S",":","/","/">>, <<"f","t","p",":","/","/">>},
        host \in {<<"E","X","A","M","P","L","E",".","c","o","m">>, <<"l","o","c","a","l","h","o","s","t">>, <<"1",".","2",".","3",".","4">>, <<"h","t","t","p","b","i","n",".","o","r","g">>,
                  <<"n","o","t"," ","a"," ","u","r","l">>, <<"a">>},
        suffix \in {<<>>, <<"/","p","a","t","h">>, <<":","8","0">>, <<"?","q","=","1">>} }

InitUrl ==
    \E u \in ProxyFreeUrls :
        StartWith(NoArgs,
                  Present([DefaultDoc EXCEPT !.ProxyFree.javdb = PyStr(u)],
                          AllDecodable))

SpecUrl == InitUrl /\ [][Next]_vars

(***************************************************************************)
(* Vocabulary of the properties.                                           *)
(***************************************************************************)
Ran(name) == \E i \in 1..Len(hist) : hist[i] = name
RaisedIn(name) == pc = "raised" /\ hist # <<>> /\ hist[Len(hist)] = name
Returned(name) == Ran(name) /\ ~RaisedIn(name)
FileLoaded == "Network" \in DOMAIN cfg

TrueSpellings == {<<"1">>, <<"y","e","s">>, <<"t","r","u","e">>, <<"o","n">>}
FalseSpellings == {<<"0">>, <<"n","o">>, <<"f","a","l","s","e">>, <<"o","f","f">>}
SpelledTrue(x) == str_lower(x.v) \in TrueSpellings
SpelledFalse(x) == str_lower(x.v) \in FalseSpellings
Recognized(x) == SpelledTrue(x) \/ SpelledFalse(x)

IsPopulated(x, address) ==
    /\ x.t = "dict"
    /\ DOMAIN x.v = {"http", "https"}
    /\ x.v["http"] = address
    /\ x.v["https"] = address
IsDisabled(x) == x.t = "dict" /\ DOMAIN x.v = {}

Warnings == Cardinality({i \in 1..Len(log) : log[i].level = "WARNING"})

\* the address stage 4 is given: the one of -x if supplied, else the file's
ProxyInput == IF Truthy(cli.proxy) THEN cli.proxy.v ELSE doc.Network.proxy.v

\* s is scheme://host:port with the scheme one of http, socks5, socks5h,
\* a non-empty host of the characters hostchars and a non-empty numeric port
AddressShape(s, hostchars) ==
    \E scheme \in {<<"h","t","t","p">>, <<"s","o","c","k","s","5">>, <<"s","o","c","k","s","5","h">>} :
       /\ startswith(s, scheme \o <<":","/","/">>)
       /\ LET rest == SubSeq(s, Len(scheme) + 4, Len(s))
          IN \E k \in 2..(Len(rest) - 1) :
                /\ rest[k] = ":"
                /\ \A j \in 1..(k - 1) : rest[j] \in hostchars
                /\ \A j \in (k + 1)..Len(rest) : rest[j] \in Digits

HostCharsLower == LowerSet \cup Digits \cup {"-", "."}
HostCharsAnyCase == HostCharsLower \cup UpperSet

WithoutFinalNewline(s) ==
    IF s # <<>> /\ s[Len(s)] = "\n" THEN SubSeq(s, 1, Len(s) - 1) ELSE s

(***************************************************************************)
(* C1: with -x http://1.2.3.4:8080 on the command line, a run that         *)
(* completes leaves Network.proxy = {http: address, https: address},       *)
(* whatever true or false spelling the file gives use_proxy.               *)
(***************************************************************************)
C1_CliProxyForcesProxyOn ==
    (pc = "done" /\ cli.proxy = PyStr(cli_proxy))
        => IsPopulated(cfg.Network.proxy, cli_proxy)

(***************************************************************************)
(* C2 as stated: once stage 4 has run on a recognized use_proxy, the proxy *)
(* is the empty mapping or both entries with one address; false gives the  *)
(* empty mapping; true with an address of the shape scheme://host:port     *)
(* gives both entries equal to that address; true with any other address   *)
(* gives the empty mapping, exactly one warning and no exception.          *)
(***************************************************************************)
C2_ProxyEqualsRawAddress ==
    (Ran("validate_proxy") /\ Recognized(doc.Network.use_proxy)) =>
        LET raw == ProxyInput
            matching == AddressShape(raw, HostCharsAnyCase)
        IN /\ SpelledFalse(doc.Network.use_proxy) => IsDisabled(cfg.Network.proxy)
           /\ (SpelledTrue(doc.Network.use_proxy) /\ matching)
                 => IsPopulated(cfg.Network.proxy, raw)
           /\ (SpelledTrue(doc.Network.use_proxy) /\ ~matching)
                 => (IsDisabled(cfg.Network.proxy) /\ Warnings = 1 /\ exc = "")

(***************************************************************************)
(* C2 amended: the shape is tested on the lower-cased address (one final   *)
(* newline tolerated) and the two entries hold the lower-cased address.    *)
(* Once stage 4 has run on a recognized use_proxy: the proxy is the empty  *)
(* mapping or both entries with the same address; false gives the empty    *)
(* mapping; true and a lower-cased address of the shape gives both entries *)
(* equal to the lower-cased address; true and any other address gives the  *)
(* empty mapping, exactly one warning, no exception, and the run goes on   *)
(* to the later stages.                                                    *)
(***************************************************************************)
C2_ProxyEqualsLoweredAddress ==
    (Ran("validate_proxy") /\ Recognized(doc.Network.use_proxy)) =>
        LET low == str_lower(ProxyInput)
            matching == AddressShape(WithoutFinalNewline(low), HostCharsLower)
        IN /\ IsDisabled(cfg.Network.proxy) \/ IsPopulated(cfg.Network.proxy, low)
           /\ SpelledFalse(doc.Network.use_proxy) => IsDisabled(cfg.Network.proxy)
           /\ (SpelledTrue(doc.Network.use_proxy) /\ matching)
                 => IsPopulated(cfg.Network.proxy, low)
           /\ (SpelledTrue(doc.Network.use_proxy) /\ ~matching)
                 => (IsDisabled(cfg.Network.proxy) /\ Warnings = 1)
           /\ exc = ""
           /\ pc \in {"convert_naming_rule", "check_proxy_free_url", "done"}

\* stage 4 has populated the proxy from an address written with capitals
C2_Witness ==
    /\ Ran("validate_proxy")
    /\ SpelledTrue(doc.Network.use_proxy)
    /\ ProxyInput # str_lower(ProxyInput)
    /\ IsPopulated(cfg.Network.proxy, str_lower(ProxyInput))

(***************************************************************************)
(* C3: after stage 6 every ProxyFree url is the lower-cased url, with      *)
(* http:// prepended when it has neither http:// nor https:// in front,    *)
(* if that satisfies is_url, and the empty string otherwise; the sites are *)
(* unchanged and the stage does not raise.                                 *)
(***************************************************************************)
ClaimedProxyFreeUrl(raw) ==
    LET low == str_lower(raw)
        url == IF startswith(low, <<"h","t","t","p",":","/","/">>) \/ startswith(low, <<"h","t","t","p","s",":","/","/">>)
               THEN low ELSE <<"h","t","t","p",":","/","/">> \o low
    IN IF is_url(url) THEN url ELSE <<>>

C3_SchemePrependedWhenMissing ==
    Ran("check_proxy_free_url") =>
        /\ pc = "done"
        /\ DOMAIN cfg.ProxyFree = DOMAIN doc.ProxyFree
        /\ \A site \in DOMAIN doc.ProxyFree :
              cfg.ProxyFree[site] = PyStr(ClaimedProxyFreeUrl(doc.ProxyFree[site].v))

(***************************************************************************)
(* C4: after stage 2, File.media_ext is a tuple with one element per       *)
(* semicolon-separated item of the file's string, in order; each element   *)
(* is the lower-cased item, with '.' in front exactly when the lower-cased *)
(* item does not start with one, so every element starts with '.' and is   *)
(* lower-case; 'mp4;AVI' gives ('.mp4', '.avi').                           *)
(***************************************************************************)
SepPositions(s) == {i \in 1..Len(s) : s[i] = ";"}
\* the k-th item: between the (k-1)-th and the k-th semicolon
ItemAt(s, k) ==
    LET before(i) == Cardinality({j \in SepPositions(s) : j < i})
    IN SubSeq(s,
              IF k = 1 THEN 1
              ELSE (CHOOSE i \in SepPositions(s) : before(i) = k - 2) + 1,
              IF k = Cardinality(SepPositions(s)) + 1 THEN Len(s)
              ELSE (CHOOSE i \in SepPositions(s) : before(i) = k - 1) - 1)

C4_MediaExt ==
    Returned("norm_tuples") =>
        LET raw == doc.File.media_ext.v
            out == cfg.File.media_ext
        IN /\ out.t = "tuple"
           /\ Len(out.v) = Cardinality(SepPositions(raw)) + 1
           /\ \A k \in 1..Len(out.v) :
                 LET item == str_lower(ItemAt(raw, k))
                 IN /\ out.v[k] = IF item # <<>> /\ item[1] = "." THEN item
                                  ELSE <<".">> \o item
                    /\ out.v[k][1] = "."
                    /\ \A i \in 1..Len(out.v[k]) : ~IsUpper(out.v[k][i])
           /\ raw = <<"m","p","4",";","A","V","I">> => out.v = << <<".","m","p","4">>, <<".","a","v","i">> >>

\* stage 2 has converted a list whose items include one with a leading dot,
\* one without and one with a capital
C4_Witness ==
    /\ Returned("norm_tuples")
    /\ Len(cfg.File.media_ext.v) = 2
    /\ doc.File.media_ext.v[1] = "."
    /\ \E i \in 1..Len(doc.File.media_ext.v) : IsUpper(doc.File.media_ext.v[i])
    /\ Len(cfg.File.media_ext.v[2]) = Len(ItemAt(doc.File.media_ext.v, 2)) + 1

(***************************************************************************)
(* C5: the functions run at most once each, in the order read, overlay,    *)
(* then the six stages (integers, tuples, booleans, proxy, naming rule,    *)
(* proxy-free urls); a completed run has run them all.  The overlay never  *)
(* follows a stage, so the values of the command line go through the       *)
(* stages: with -o the final save_dir template is the -o folder joined     *)
(* with the file's save_dir, and with -x stage 4 is handed the -x address. *)
(***************************************************************************)
ExpectedOrder ==
    << "parse_args", "read", "overwrite_cfg", "norm_int", "norm_tuples",
       "norm_boolean", "validate_proxy", "convert_naming_rule",
       "check_proxy_free_url" >>

C5_FixedOrder ==
    /\ Len(hist) <= Len(ExpectedOrder)
    /\ hist = SubSeq(ExpectedOrder, 1, Len(hist))
    /\ pc = "done" => hist = ExpectedOrder
    /\ pc \notin {"done", "raised"} => pc = ExpectedOrder[Len(hist) + 1]
    /\ (pc = "done" /\ Truthy(cli.output)) =>
          /\ cfg.NamingRule.save_dir.t = "Template"
          /\ cfg.NamingRule.save_dir.v =
                 cli.output.v \o <<"/">> \o doc.NamingRule.save_dir.v
    /\ (pc = "validate_proxy" /\ Truthy(cli.proxy)) => cfg.Network.proxy = cli.proxy
    /\ (Returned("validate_proxy") /\ Truthy(cli.proxy)
           /\ SpelledTrue(doc.Network.use_proxy)) =>
          IsPopulated(cfg.Network.proxy, str_lower(cli.proxy.v))

\* a completed run with -o and -x, whose address stage 4 accepted
C5_Witness ==
    /\ pc = "done"
    /\ Truthy(cli.output)
    /\ Truthy(cli.proxy)
    /\ IsPopulated(cfg.Network.proxy, cli_proxy)

(***************************************************************************)
(* C6: a retry or timeout that is not a number makes stage 1 raise, and an *)
(* unrecognized spelling of one of the five boolean options makes stage 3  *)
(* raise; no later stage runs and the run never completes.  Recognized     *)
(* spellings are coerced case-insensitively: 'Yes', 'yes', 'YES', '1' and  *)
(* 'on' to true.                                                           *)
(***************************************************************************)
NonNumeric(s) ==
    \/ \A i \in 1..Len(s) : s[i] \notin Digits
    \/ \E i \in 1..Len(s) : s[i] \notin Digits \cup {"+", "-", "_"} \cup Whitespace

BooleanOptions(c) ==
    << c.Crawler.hardworking_mode, c.Crawler.title__remove_actor,
       c.Crawler.title__chinese_first, c.Picture.use_big_cover,
       c.NFO.add_genre_to_tag >>

BadInteger == NonNumeric(doc.Network.retry.v) \/ NonNumeric(doc.Network.timeout.v)
BadBoolean == \E k \in 1..5 : ~Recognized(BooleanOptions(doc)[k])

C6_FatalErrorsHalt ==
    "Network" \in DOMAIN doc =>
        /\ BadInteger =>
              /\ pc # "done"
              /\ \A k \in 5..9 : ~Ran(ExpectedOrder[k])
              /\ Ran("norm_int") => (RaisedIn("norm_int") /\ exc = "ValueError")
        /\ (~BadInteger /\ BadBoolean) =>
              /\ pc # "done"
              /\ \A k \in 7..9 : ~Ran(ExpectedOrder[k])
              /\ Ran("norm_boolean") => (RaisedIn("norm_boolean") /\ exc = "ValueError")
        /\ Returned("norm_boolean") =>
              \A k \in 1..5 :
                 /\ BooleanOptions(cfg)[k].t = "bool"
                 /\ BooleanOptions(cfg)[k].v = SpelledTrue(BooleanOptions(doc)[k])

\* stage 3 has raised on an unrecognized spelling
C6_Witness ==
    /\ "Network" \in DOMAIN doc
    /\ BadBoolean
    /\ RaisedIn("norm_boolean")

(***************************************************************************)
(* C7: when -c names a path that does not exist, parse_args logs an error  *)
(* and returns with args.config set to that path; the read is attempted    *)
(* with it; nothing is loaded, the run never completes, and it has raised  *)
(* by the end of the first stage.                                          *)
(***************************************************************************)
ConfigGivenAndMissing ==
    /\ Truthy(cli.config)
    /\ (<<"/","w","/">> \o cli.config.v) \notin files

C7_MissingConfigFile ==
    ConfigGivenAndMissing =>
        /\ Ran("parse_args") =>
              /\ args.config = PyStr(<<"/","w","/">> \o cli.config.v)
              /\ \E i \in 1..Len(log) : log[i] = LogRec("ERROR", "parse_args")
              /\ Len(hist) = 1 => pc = "read"
        /\ Ran("read") => Len(attempts) >= 1
        /\ pc # "done"
        /\ cfg = EmptyStore
        /\ \A k \in 5..9 : ~Ran(ExpectedOrder[k])
        /\ Ran("norm_int") => pc = "raised"
        /\ pc = "raised" => exc # ""

\* the run with a missing -c file has raised after the read was attempted
C7_Witness ==
    /\ ConfigGivenAndMissing
    /\ pc = "raised"
    /\ Len(attempts) >= 1

(***************************************************************************)
(* C8: Config.read makes at most three attempts, with utf-8, utf-8-sig and *)
(* the default encoding in this order; the second follows a decode error   *)
(* of the first, the third a failure of the second, none follows a         *)
(* success, and a failure of the third is raised to the caller.            *)
(***************************************************************************)
C8_ReadAttempts ==
    LET n == Len(attempts)
    IN /\ n <= 3
       /\ \A i \in 1..n : attempts[i].encoding = <<"utf-8", "utf-8-sig", "default">>[i]
       /\ Ran("read") => n >= 1
       /\ \A i \in 1..n : files # {} => attempts[i].result = outcomes[i]
       /\ n >= 2 => attempts[1].result = "UnicodeDecodeError"
       /\ n >= 3 => attempts[2].result # "ok"
       /\ \A i \in 1..(n - 1) : attempts[i].result # "ok"
       /\ (n >= 1 /\ attempts[1].result = "UnicodeDecodeError") => n >= 2
       /\ (n >= 2 /\ attempts[2].result # "ok") => n = 3
       /\ (n = 3 /\ attempts[3].result # "ok") =>
             (RaisedIn("read") /\ exc = attempts[3].result)
       /\ (n >= 1 /\ attempts[n].result = "ok") => ~RaisedIn("read")

\* all three attempts failed and the read raised
C8_Witness ==
    /\ Len(attempts) = 3
    /\ attempts[3].result # "ok"
    /\ RaisedIn("read")

(***************************************************************************)
(* C9: until validate starts every value of the store is a string; once a  *)
(* stage has returned, the fields it converts hold their type from then    *)
(* on: retry and timeout integers, media_ext, ignore_folder and            *)
(* required_keys tuples, the five boolean options booleans, proxy a        *)
(* mapping, save_dir and filename templates.                               *)
(***************************************************************************)
TypedFields ==
    { <<"Network", "retry", "int", "norm_int">>,
      <<"Network", "timeout", "int", "norm_int">>,
      <<"File", "media_ext", "tuple", "norm_tuples">>,
      <<"File", "ignore_folder", "tuple", "norm_tuples">>,
      <<"Crawler", "required_keys", "tuple", "norm_tuples">>,
      <<"Crawler", "hardworking_mode", "bool", "norm_boolean">>,
      <<"Crawler", "title__remove_actor", "bool", "norm_boolean">>,
      <<"Crawler", "title__chinese_first", "bool", "norm_boolean">>,
      <<"Picture", "use_big_cover", "bool", "norm_boolean">>,
      <<"NFO", "add_genre_to_tag", "bool", "norm_boolean">>,
      <<"Network", "proxy", "dict", "validate_proxy">>,
      <<"NamingRule", "save_dir", "Template", "convert_naming_rule">>,
      <<"NamingRule", "filename", "Template", "convert_naming_rule">> }

C9_TypeInvariant ==
    /\ ~Ran("norm_int") =>
          \A sec \in DOMAIN cfg : \A key \in DOMAIN cfg[sec] : cfg[sec][key].t = "str"
    /\ \A f \in TypedFields : Returned(f[4]) => cfg[f[1]][f[2]].t = f[3]
    /\ pc = "done" => \A f \in TypedFields : cfg[f[1]][f[2]].t = f[3]

\* a completed run
C9_Witness ==
    /\ pc = "done"
    /\ cfg.Network.retry.t = "int"
    /\ cfg.NamingRule.filename.t = "Template"

(***************************************************************************)
(* C10: Network.use_proxy is never written: from the read on it holds the  *)
(* file's raw string.  The boolean stage does not parse it, so an          *)
(* unrecognized spelling raises in stage 4, when stages 1 to 3 have        *)
(* already converted their fields.                                         *)
(***************************************************************************)
C10_UseProxyNeverWritten ==
    FileLoaded =>
        /\ cfg.Network.use_proxy = doc.Network.use_proxy
        /\ ~Recognized(doc.Network.use_proxy) =>
              /\ \A k \in 8..9 : ~Ran(ExpectedOrder[k])
              /\ pc # "done"
              /\ (~BadBoolean) => ~RaisedIn("norm_boolean")
              /\ Ran("validate_proxy") =>
                    /\ RaisedIn("validate_proxy")
                    /\ exc = "ValueError"
                    /\ \A f \in TypedFields :
                          f[4] \in {"norm_int", "norm_tuples", "norm_boolean"}
                              => cfg[f[1]][f[2]].t = f[3]
                    /\ cfg.Network.proxy.t = "str"

\* stage 4 has raised on the spelling of use_proxy, with -x on the command line
C10_Witness ==
    /\ FileLoaded
    /\ ~Recognized(doc.Network.use_proxy)
    /\ RaisedIn("validate_proxy")
    /\ Truthy(cli.proxy)

====
